---- MODULE Spec2Model ----
(***************************************************************************)
(* State-machine model of the YC Insight Extractor video pipeline          *)
(* (src/src/transcript/pipeline.py and the modules it calls).              *)
(*                                                                         *)
(* The state is the data directory on disk (one set of artifacts per       *)
(* video) plus the local variables of the running pipeline process.  One   *)
(* action models one step of main / run_pipeline / process_single_video;   *)
(* the external tools (yt-dlp, ffprobe, ffmpeg, the speech-to-text and     *)
(* chat APIs, the file system) answer nondeterministically.                *)
(***************************************************************************)
EXTENDS Integers, Sequences, FiniteSets, TLC

(***************************************************************************)
(* Bounds of the model                                                     *)
(***************************************************************************)
\* program invocations (pipeline runs and runs of the stand-alone
\* transcription script) explored from an empty data directory
MaxRuns == 2
\* chapters a video may have
MaxChapters == 1
\* audio durations explored: 1..MaxDurSteps times the chunk size, which
\* split_by_length cuts into two segments at least
MaxDurSteps == 1
\* length of the lists handed to transcribe_audio_chunks and
\* assemble_transcript when they are called on their own
MaxSegments == 3
\* split_by_length called on its own: durations 1..MaxDuration with chunk
\* sizes 1..MaxChunk, and durations of 100..500 * MaxDuration seconds with
\* the default chunk size and overlap
MaxDuration == 6
MaxChunk == 3
\* descriptions handed to the chapter parser: at most MaxLines lines, the
\* minutes and hours of their timestamps in 0..MaxPart
MaxLines == 2
MaxPart == 1

(***************************************************************************)
(* Program constants                                                       *)
(***************************************************************************)
\* split_by_length(..., chunk_duration=1200, overlap=200)
ChunkDuration == 1200
Overlap == 200
\* download_audio: "if retry_count < 2" retries
DownloadRetryLimit == 2

Videos == {"v1", "v2"}

\* the id lists --video-ids may give (nargs="+": at least one id)
IdLists == UNION {[1..n -> Videos] : n \in 1..Cardinality(Videos)}

\* the content of video_ids.json when it is there: every video once
VideoIdsFile == <<"v1", "v2">>

Durations == {k * ChunkDuration : k \in 1..MaxDurSteps}

Stages == <<"download", "split", "transcribe", "assemble", "insights">>

(***************************************************************************)
(* Small helpers                                                           *)
(***************************************************************************)
Max(a, b) == IF a >= b THEN a ELSE b

Min(a, b) == IF a <= b THEN a ELSE b

\* the sequence <<0, 1, ..., n-1>>
Iota(n) == [k \in 1..n |-> k - 1]

\* all orders in which the elements 0..n-1 can be listed
Perms(n) == {p \in [1..n -> 0..(n - 1)] : \A a, b \in 1..n : a # b => p[a] # p[b]}

StageIndex(s) == CHOOSE k \in 1..Len(Stages) : Stages[k] = s

(***************************************************************************)
(* Texts.  A transcript text is <<>> (the empty string) or <<i>>, the      *)
(* speech recognised in segment i.  A chunk handed to the assembler is     *)
(* either a bare text or the text wrapped in the "=== CHUNK i ===" header  *)
(* built from a metadata entry.                                            *)
(***************************************************************************)
EmptyText == <<>>

SpeechOf(i) == <<i>>

NoMeta == [chunk_index |-> 0 - 1, is_chapter_based |-> FALSE]

\* a bare transcript as a chunk
Plain(text) == [enhanced |-> FALSE, position |-> 0 - 1, meta |-> NoMeta, text |-> text]

\* a text of white space only
Blank == <<0 - 1>>

\* str.strip()
Strip(text) == IF text = Blank THEN EmptyText ELSE text

\* str.strip() leaves no character: only a bare empty or blank text does;
\* the header lines of an enhanced chunk survive stripping
StripsToEmpty(chunk) == ~chunk.enhanced /\ Strip(chunk.text) = EmptyText

(***************************************************************************)
(* create_chunk_metadata: one entry per segment                            *)
(***************************************************************************)
CreateChunkMetadata(chunk_index, chapter_based) ==
    [chunk_index |-> chunk_index, is_chapter_based |-> chapter_based]

NoMetaFile == [st |-> "none", entries |-> <<>>]

(***************************************************************************)
(* download_audio (download_audio.py).  file is the state of the video's   *)
(* mp3 ("none", "partial" for an empty or truncated file, "complete");     *)
(* out is how the invocation of yt-dlp ends:                               *)
(*   "ok"          exit 0, a non-empty file is at the output path          *)
(*   "ok_missing"  exit 0, no file at the output path                      *)
(*   "ok_empty"    exit 0, an empty file at the output path                *)
(*   "err"         non-zero exit (CalledProcessError), no file left        *)
(*   "err_partial" non-zero exit, a partial file left at the output path   *)
(*   "exc"         any other exception while running the tool              *)
(***************************************************************************)
AttemptOutcomes == {"ok", "ok_missing", "ok_empty", "err", "err_partial", "exc"}

\* a download_audio that retries once more: "if retry_count < 3"
DownloadAudioOneMoreRetry(file, out, retry_count) ==
    IF file # "none"
    THEN [returns |-> "true", file |-> file, calls |-> 0]
    ELSE CASE out = "ok" -> [returns |-> "true", file |-> "complete", calls |-> 1]
           [] out = "ok_missing" -> [returns |-> "false", file |-> "none", calls |-> 1]
           [] out = "ok_empty" -> [returns |-> "false", file |-> "partial", calls |-> 1]
           [] out = "exc" -> [returns |-> "false", file |-> "none", calls |-> 1]
           [] OTHER ->
                [returns |-> IF retry_count < DownloadRetryLimit + 1 THEN "retry"
                             ELSE "false",
                 file |-> IF out = "err_partial" THEN "partial" ELSE "none",
                 calls |-> 1]

\* one call frame of download_audio: what it returns ("true", "false", or
\* "retry" when it calls itself with retry_count + 1), the file left behind
\* and the yt-dlp invocations it made
DownloadAudio(file, out, retry_count) ==
    IF file # "none"
    THEN [returns |-> "true", file |-> file, calls |-> 0]
    ELSE CASE out = "ok" -> [returns |-> "true", file |-> "complete", calls |-> 1]
           [] out = "ok_missing" -> [returns |-> "false", file |-> "none", calls |-> 1]
           [] out = "ok_empty" -> [returns |-> "false", file |-> "partial", calls |-> 1]
           [] out = "exc" -> [returns |-> "false", file |-> "none", calls |-> 1]
           [] OTHER ->
                [returns |-> IF retry_count < DownloadRetryLimit THEN "retry" ELSE "false",
                 file |-> IF out = "err_partial" THEN "partial" ELSE "none",
                 calls |-> 1]

\* a whole call of download_audio(video_id): the frames it stacks up by
\* calling itself, the k-th invocation of yt-dlp ending as outs says; calls
\* counts the invocations of all frames
RECURSIVE DownloadAudioRun(_, _, _)
DownloadAudioRun(file, outs, retry_count) ==
    LET r == DownloadAudio(file, Head(outs), retry_count) IN
    IF r.returns = "retry"
    THEN LET rest == DownloadAudioRun(r.file, Tail(outs), retry_count + 1)
         IN  [rest EXCEPT !.calls = @ + r.calls]
    ELSE r

(***************************************************************************)
(* Chapters (split_audio.py 25-80).  A description is a list of lines; a   *)
(* line is [parts, titled]: the numbers of the timestamp it starts with    *)
(* (<<m, s>> for m:ss, <<h, m, s>> for h:mm:ss, <<>> for no timestamp) and *)
(* whether text follows the timestamp.                                     *)
(***************************************************************************)
\* what end_time is for the last chapter: None
NoEnd == 0 - 1

TimeTokens ==
    {<<m, sec>> : m \in 0..MaxPart, sec \in {0, 30}}
    \cup {<<h, 0, 15>> : h \in 1..MaxPart}

Lines ==
    {[parts |-> <<>>, titled |-> TRUE]}
    \cup {[parts |-> t, titled |-> b] : t \in TimeTokens, b \in BOOLEAN}

Descriptions == UNION {[1..n -> Lines] : n \in 0..MaxLines}

\* pattern.match(line.strip()): the time group the pattern finds, <<>> when
\* the line does not match.  The title group needs one character at least:
\* m:ss with nothing behind it does not match, h:mm:ss with nothing behind
\* it matches as h:mm followed by the title ":ss".
MatchTime(line) ==
    CASE Len(line.parts) = 2 -> IF line.titled THEN line.parts ELSE <<>>
      [] Len(line.parts) = 3 ->
            IF line.titled THEN line.parts ELSE <<line.parts[1], line.parts[2]>>
      [] OTHER -> <<>>

\* lines 34-38
Seconds(time_parts) ==
    IF Len(time_parts) = 2
    THEN time_parts[1] * 60 + time_parts[2]
    ELSE time_parts[1] * 3600 + time_parts[2] * 60 + time_parts[3]

\* parse_chapters_from_description: one {start, title} per matching line, in
\* the order of the lines; the title is kept as the line's number
ParseChaptersFromDescription(description) ==
    LET F[k \in 0..Len(description)] ==
            IF k = 0 THEN <<>>
            ELSE IF MatchTime(description[k]) = <<>> THEN F[k - 1]
                 ELSE Append(F[k - 1],
                             [start |-> Seconds(MatchTime(description[k])), title |-> k])
    IN  F[Len(description)]

\* get_chapters 71-78: each chapter ends where the next one starts
DescriptionChapters(raw_chapters) ==
    [j \in 1..Len(raw_chapters) |->
        [start_time |-> raw_chapters[j].start,
         end_time |-> IF j + 1 <= Len(raw_chapters)
                      THEN raw_chapters[j + 1].start ELSE NoEnd,
         title |-> raw_chapters[j].title]]

\* what yt-dlp --print "%(chapters_json)s" gives: "raises" subprocess.run
\* raises, "empty" nothing on stdout, "None" the text None, "empty_list" the
\* text [], "list" a JSON list of chapters, "garbage" text json.loads rejects
NativeOutcomes == {"raises", "empty", "None", "empty_list", "list", "garbage"}

\* the chapters of the platform when it has some
NativeChapters ==
    <<[start_time |-> 0, end_time |-> 60, title |-> 0],
      [start_time |-> 60, end_time |-> 90, title |-> 1]>>

\* the metadata file of the video: "missing", "ok" (it holds the
\* description), "no_snippet" (JSON without a description), "bad_json"
MetadataStates == {"missing", "ok", "no_snippet", "bad_json"}

ChaptersResult(source, chapters) ==
    [raised |-> FALSE, source |-> source, chapters |-> chapters]

\* get_chapters: whatever json.loads makes of a non-empty output other than
\* "None" is returned, the empty list too; otherwise the description of the
\* metadata file is parsed; json.load of that file is outside any try
GetChapters(native, metadata, description) ==
    IF native \in {"list", "empty_list"}
    THEN ChaptersResult("native", IF native = "list" THEN NativeChapters ELSE <<>>)
    ELSE CASE metadata = "missing" -> ChaptersResult("none", <<>>)
           [] metadata = "bad_json" ->
                 [raised |-> TRUE, source |-> "none", chapters |-> <<>>]
           [] OTHER ->
                 LET raw == ParseChaptersFromDescription(
                               IF metadata = "ok" THEN description ELSE <<>>)
                 IN  IF raw # <<>>
                     THEN ChaptersResult("description", DescriptionChapters(raw))
                     ELSE ChaptersResult("none", <<>>)

(***************************************************************************)
(* split_audio.py.  A segment file path is [kind, idx]: kind "chunk" for   *)
(* <id>_chunk_<idx>.mp3, kind "chapter" for <id>_chapter_<idx>_<slug>.mp3. *)
(***************************************************************************)
ChunkPath(kind, idx) == [kind |-> kind, idx |-> idx]

\* a loop whose segments do not overlap: start += chunk_duration
RECURSIVE LengthSegmentsNoOverlap(_, _, _, _)
LengthSegmentsNoOverlap(start, duration, chunk_duration, overlap) ==
    IF start < duration
    THEN <<[start |-> start, end |-> Min(start + chunk_duration, duration)]>>
         \o LengthSegmentsNoOverlap(start + chunk_duration, duration,
                                    chunk_duration, overlap)
    ELSE <<>>

\* the while loop of split_by_length: the [start, end] of every cut
RECURSIVE LengthSegments(_, _, _, _)
LengthSegments(start, duration, chunk_duration, overlap) ==
    IF start < duration
    THEN <<[start |-> start, end |-> Min(start + chunk_duration, duration)]>>
         \o LengthSegments(start + chunk_duration - overlap, duration,
                           chunk_duration, overlap)
    ELSE <<>>

\* What a split leaves and returns.  d is the video's chunk directory
\* [chunks, chapters, meta]: the number of chunk files, of chapter files, and
\* the metadata file.  ffmpeg's exit status is not looked at: with cut_ok
\* false no segment file appears.  With dump_ok false writing the metadata
\* file fails part-way: the file is left truncated and the error is raised.
SplitResult(d, kind, n, cut_ok, dump_ok) ==
    LET files == [k \in 1..n |-> ChunkPath(kind, k - 1)]
        metadata == [k \in 1..n |-> CreateChunkMetadata(k - 1, kind = "chapter")]
        made == IF cut_ok THEN n ELSE 0
    IN  [raised |-> ~dump_ok,
         ret |-> [shape |-> "tuple", items |-> <<files, metadata>>],
         dir |-> [chunks |-> IF kind = "chunk" THEN Max(d.chunks, made) ELSE d.chunks,
                  chapters |-> IF kind = "chapter" THEN Max(d.chapters, made)
                               ELSE d.chapters,
                  meta |-> IF dump_ok THEN [st |-> "ok", entries |-> metadata]
                           ELSE [st |-> "corrupt", entries |-> <<>>]],
         probes |-> 1,
         cuts |-> n]

SplitByLength(d, duration, cut_ok, dump_ok) ==
    SplitResult(d, "chunk",
                Len(LengthSegments(0, duration, ChunkDuration, Overlap)),
                cut_ok, dump_ok)

SplitByChapters(d, nchapters, cut_ok, dump_ok) ==
    SplitResult(d, "chapter", nchapters, cut_ok, dump_ok)

\* Python's "x or y" on an end_time: None and 0 are both falsy
Falsy(end_time) == end_time = NoEnd \/ end_time = 0

\* the for loop of split_by_chapters: the [start, end] of every cut, one per
\* chapter, in the order of the list (lines 125-146)
ChapterSegments(chapters, total_duration) ==
    [k \in 1..Len(chapters) |->
        [start |-> chapters[k].start_time,
         end |-> IF Falsy(chapters[k].end_time) THEN total_duration
                 ELSE chapters[k].end_time]]

\* the answers of the tools to one split_audio_file call: chapters is the
\* number of chapters get_chapters returns (0: none, -1: it raises), duration
\* what ffprobe prints (0: nothing parsable, float() raises)
SplitInputs ==
    [chapters : (0 - 1)..MaxChapters, duration : {0} \cup Durations,
     cut_ok : BOOLEAN, dump_ok : BOOLEAN]

Raised(d, probes) ==
    [raised |-> TRUE, ret |-> [shape |-> "tuple", items |-> <<>>], dir |-> d,
     probes |-> probes, cuts |-> 0]

SplitAudioFile(d, in) ==
    IF in.chapters < 0 THEN Raised(d, 0)
    ELSE IF in.duration = 0 THEN Raised(d, 1)
    ELSE IF in.chapters > 0
         THEN SplitByChapters(d, in.chapters, in.cut_ok, in.dump_ok)
         ELSE SplitByLength(d, in.duration, in.cut_ok, in.dump_ok)

(***************************************************************************)
(* transcribe_audio_chunks (transcribe_chunks.py).  Iterating over the     *)
(* (files, metadata) tuple hands Path() a list: TypeError, raised outside  *)
(* the per-chunk try.  outs[k] tells whether the service transcribes the   *)
(* k-th file.                                                              *)
(***************************************************************************)
\* a loop that lets the first failed segment end the whole call
TranscribeAbortsOnFailure(chunk_files, outs) ==
    IF \E k \in 1..Len(chunk_files.items) : ~outs[k]
    THEN [raised |-> TRUE, transcripts |-> <<>>, calls |-> 1]
    ELSE [raised |-> FALSE,
          transcripts |-> [k \in 1..Len(chunk_files.items) |->
                             SpeechOf(chunk_files.items[k].idx)],
          calls |-> Len(chunk_files.items)]

TranscribeAudioChunks(chunk_files, outs) ==
    IF chunk_files.shape = "tuple" /\ Len(chunk_files.items) > 0
    THEN [raised |-> TRUE, transcripts |-> <<>>, calls |-> 0]
    ELSE [raised |-> FALSE,
          transcripts |-> [k \in 1..Len(chunk_files.items) |->
                             IF outs[k] THEN SpeechOf(chunk_files.items[k].idx)
                             ELSE EmptyText],
          calls |-> Len(chunk_files.items)]

(***************************************************************************)
(* assemble_transcript (assemble_transcripts.py): one section per chunk    *)
(* that is not empty after strip(), headed by its position in the list.    *)
(***************************************************************************)
\* an assembler that numbers the sections it emits, not the chunks it reads
AssembleRenumbering(transcript_chunks) ==
    LET F[k \in 0..Len(transcript_chunks)] ==
            IF k = 0 THEN <<>>
            ELSE IF StripsToEmpty(transcript_chunks[k]) THEN F[k - 1]
                 ELSE Append(F[k - 1],
                             [index |-> Len(F[k - 1]), body |-> transcript_chunks[k]])
    IN  F[Len(transcript_chunks)]

AssembleTranscript(transcript_chunks) ==
    LET F[k \in 0..Len(transcript_chunks)] ==
            IF k = 0 THEN <<>>
            ELSE IF StripsToEmpty(transcript_chunks[k]) THEN F[k - 1]
                 ELSE Append(F[k - 1], [index |-> k - 1, body |-> transcript_chunks[k]])
    IN  F[Len(transcript_chunks)]

(***************************************************************************)
(* extract_insights_from_transcript (extract_insights.py).                 *)
(*                                                                         *)
(* A JSON value is [t, v]: its type and a tag for its content.  A JSON     *)
(* object, and the dict the function returns, is a function from keys to   *)
(* JSON values.  The answer of the chat call is [kind, fence, obj]:        *)
(*   kind "api_error"   the call raises                                    *)
(*   kind "no_content"  message.content is None (.strip() raises)          *)
(*   kind "text"        the content is not JSON                            *)
(*   kind "json_other"  the content is JSON but not an object              *)
(*   kind "json_object" the content is the JSON object obj                 *)
(* fence tells how the content is wrapped: "none", "json" for ```json ...  *)
(* ``` and "plain" for ``` ... ```.                                        *)
(***************************************************************************)
Str(x) == [t |-> "str", v |-> x]

List(x) == [t |-> "list", v |-> x]

Num(x) == [t |-> "num", v |-> x]

Null == [t |-> "null", v |-> ""]

\* the empty JSON object
EmptyObject == [k \in {} |-> Null]

\* dict.get(key, default)
Get(obj, key, default) == IF key \in DOMAIN obj THEN obj[key] ELSE default

InsightKeys == {"summary", "insights", "golden_nuggets"}

\* the value the prompt asks for under a key, and one of another type
WellTyped(key) == IF key = "summary" THEN Str("text") ELSE List("items")

IllTyped(key) == IF key = "summary" THEN Num("42") ELSE Str("text")

\* the JSON objects the model may answer with: any of the three fields
\* present, each of the asked type, or each of another type
ModelObjects ==
    {[k \in K |-> IF well THEN WellTyped(k) ELSE IllTyped(k)] :
        K \in SUBSET InsightKeys, well \in BOOLEAN}

Fences == {"none", "json", "plain"}

Response(kind, fence, obj) == [kind |-> kind, fence |-> fence, obj |-> obj]

\* every answer of the chat call the model explores
Responses ==
    {Response("api_error", "none", EmptyObject), Response("no_content", "none", EmptyObject)}
    \cup {Response(k, f, EmptyObject) : k \in {"text", "json_other"}, f \in Fences}
    \cup {Response("json_object", f, o) : f \in Fences, o \in ModelObjects}

\* the answers the pipeline model draws from: one of each kind
LlmOutcomes ==
    {Response("api_error", "none", EmptyObject),
     Response("text", "none", EmptyObject),
     Response("json_other", "none", EmptyObject),
     Response("json_object", "json", [k \in InsightKeys |-> WellTyped(k)]),
     Response("json_object", "none", [k \in InsightKeys |-> IllTyped(k)])}

\* lines 62-72: strip(), drop a leading ```json or ```, drop a trailing ```,
\* strip(): whatever the fence, the bare content is left
StripFences(response) == [response EXCEPT !.fence = "none"]

\* json.loads of the stripped content: "error" for JSONDecodeError
JsonLoads(content) ==
    CASE content.kind = "json_object" -> [result |-> "dict", obj |-> content.obj]
      [] content.kind = "json_other" -> [result |-> "other", obj |-> EmptyObject]
      [] OTHER -> [result |-> "error", obj |-> EmptyObject]

\* json.dumps of a returned dict, as the content of an answer
JsonDumps(record) == Response("json_object", "none", record)

VideoIdValue(video_id) == IF video_id = "" THEN Null ELSE Str(video_id)

ParsedRecord(obj, video_id) ==
    [summary |-> Get(obj, "summary", Str("No summary provided")),
     insights |-> Get(obj, "insights", List("empty")),
     golden_nuggets |-> Get(obj, "golden_nuggets", List("empty")),
     video_id |-> VideoIdValue(video_id)]

ParseFailureRecord(video_id) ==
    [summary |-> Str("Failed to parse insights as JSON"),
     insights |-> List("empty"),
     golden_nuggets |-> List("empty"),
     video_id |-> VideoIdValue(video_id),
     raw_response |-> Str("content")]

ErrorRecord(video_id) ==
    [summary |-> Str("Error extracting insights"),
     insights |-> List("empty"),
     golden_nuggets |-> List("empty"),
     video_id |-> VideoIdValue(video_id),
     error |-> Str("exception text")]

Returns(record) == [raised |-> FALSE, value |-> record]

Raises == [raised |-> TRUE, value |-> EmptyObject]

\* the function without its outer try: what the chat call raises escapes
ExtractWithoutOuterTry(response, video_id) ==
    IF response.kind \in {"api_error", "no_content"}
    THEN Raises
    ELSE LET parsed == JsonLoads(StripFences(response)) IN
         IF parsed.result = "dict"
         THEN Returns(ParsedRecord(parsed.obj, video_id))
         ELSE Returns(ParseFailureRecord(video_id))

\* the function: the outer try catches what the chat call and .strip()
\* raise; the inner one turns JSONDecodeError, and JSON that is not an
\* object, into the parse-failure record
ExtractInsightsFromTranscript(response, video_id) ==
    IF response.kind \in {"api_error", "no_content"}
    THEN Returns(ErrorRecord(video_id))
    ELSE LET parsed == JsonLoads(StripFences(response)) IN
         IF parsed.result = "dict"
         THEN Returns(ParsedRecord(parsed.obj, video_id))
         ELSE Returns(ParseFailureRecord(video_id))

(***************************************************************************)
(* State                                                                   *)
(***************************************************************************)
VARIABLES
    \* ---- the data directory ----
    audio,             \* audio[v]: "none", "partial" or "complete" (<v>.mp3)
    chunkDir,          \* chunkDir[v]: [exists, chunks, chapters, meta]
    chunkTranscripts,  \* chunkTranscripts[v]: [dir, files]: chunk_transcripts/<v>
    transcriptFile,    \* transcriptFile[v]: [exists, sections]: <v>.txt
    insightsFile,      \* insightsFile[v]: [exists, st, content]: <v>_insights.json
    summaryFile,       \* pipeline_summary.json is there
    \* ---- the running process ----
    pc,                \* where the process is; "idle": no process is running
    runs,              \* program invocations so far
    exit,              \* how the process ended
    env,               \* what check_dependencies finds installed and configured
    force,             \* --force-redownload
    ids_arg,           \* --video-ids: [given, ids]
    ids_file,          \* video_ids.json as load_video_ids found it
    video_ids,         \* run_pipeline: the list being processed
    i,                 \* run_pipeline: enumerate index of the current video
    results,           \* run_pipeline: results
    summary,           \* run_pipeline: summary
    summaryWrites,     \* times this run wrote the summary file
    result,            \* process_single_video: result
    retry_count,       \* download_audio: retry_count
    chunk_files,       \* process_single_video: chunk_files
    chunk_metadata,    \* process_single_video: result["steps"]["chunk_metadata"]
    transcript_chunks, \* process_single_video: transcript_chunks
    full_transcript,   \* process_single_video: full_transcript
    calls,             \* the tools called so far for the current video
    \* ---- history ----
    cachedAtStart,     \* videos whose insights file existed when the run began
    doneAll,           \* videos a finished process_single_video took through
                       \* all five stages (each "success" or "skipped")
    llmCalled,         \* videos the chat API was called for since the last
                       \* run with --force-redownload
    allWell,           \* the video of the current process_single_video call
                       \* had no artifact on disk when the call began, and no
                       \* tool and no file operation has failed in it since
    \* ---- a function called on its own ----
    call               \* [fn, arg, ret]: the function, its input, its result

disk == <<audio, chunkDir, chunkTranscripts, transcriptFile, insightsFile>>

locals == <<result, retry_count, chunk_files, chunk_metadata, transcript_chunks,
            full_transcript, calls>>

runvars == <<env, force, ids_arg, ids_file, video_ids, i, results, summary,
             summaryWrites, cachedAtStart>>

\* everything the pipeline process and its data directory consist of
pipeline == <<disk, summaryFile, pc, runs, exit, runvars, locals, doneAll, llmCalled,
              allWell>>

vars == <<pipeline, call>>

NoCall == [fn |-> "none", arg |-> <<>>, ret |-> <<>>]

\* <v>_insights.json is not there
NoInsightsFile == [exists |-> FALSE, st |-> "none", content |-> EmptyObject]

\* the external tools and services: yt-dlp downloading, yt-dlp listing
\* chapters, ffprobe, ffmpeg, the speech-to-text API, the chat API
Tools == {"download", "chapters", "probe", "cut", "stt", "llm"}

NoCalls == {}

NoResult == [video_id |-> "", status |-> "none", steps |-> <<>>, chunk_count |-> 0,
             errors |-> 0]

EmptyList == [shape |-> "list", items |-> <<>>]

NoChunkMetadata == [present |-> FALSE, entries |-> <<>>]

NoSummary == [status |-> "none", total_videos |-> 0, results |-> <<>>,
              successful |-> 0, failed |-> 0]

AllInstalled == [yt_dlp |-> TRUE, api_key |-> TRUE, openai |-> TRUE]

\* no process: every variable of the process has its initial value
NoProcess ==
    /\ pc = "idle"
    /\ exit = "none"
    /\ env = AllInstalled
    /\ force = FALSE
    /\ ids_arg = [given |-> FALSE, ids |-> <<>>]
    /\ ids_file = "not_read"
    /\ video_ids = <<>>
    /\ i = 0
    /\ results = <<>>
    /\ summary = NoSummary
    /\ summaryWrites = 0
    /\ result = NoResult
    /\ retry_count = 0
    /\ chunk_files = EmptyList
    /\ chunk_metadata = NoChunkMetadata
    /\ transcript_chunks = <<>>
    /\ full_transcript = <<>>
    /\ calls = NoCalls
    /\ cachedAtStart = {}
    /\ allWell = FALSE

\* VideoProcessingPipeline.__init__ on a fresh checkout: the data directories
\* are created empty
Init ==
    /\ audio = [v \in Videos |-> "none"]
    /\ chunkDir = [v \in Videos |->
                     [exists |-> FALSE, chunks |-> 0, chapters |-> 0, meta |-> NoMetaFile]]
    /\ chunkTranscripts = [v \in Videos |-> [dir |-> FALSE, files |-> {}]]
    /\ transcriptFile = [v \in Videos |-> [exists |-> FALSE, sections |-> <<>>]]
    /\ insightsFile = [v \in Videos |-> NoInsightsFile]
    /\ summaryFile = FALSE
    /\ runs = 0
    /\ doneAll = {}
    /\ llmCalled = {}
    /\ call = NoCall
    /\ NoProcess

\* the exit status of the process: sys.exit's argument, or 1 for a traceback
ExitCode(how) == IF how = "ok" THEN 0 ELSE 1

(***************************************************************************)
(* main and run_pipeline                                                   *)
(***************************************************************************)
\* the environments a run may meet: everything there, or one thing missing
Environments ==
    {e \in [yt_dlp : BOOLEAN, api_key : BOOLEAN, openai : BOOLEAN] :
        Cardinality({f \in {"yt_dlp", "api_key", "openai"} : ~e[f]}) <= 1}

\* main(): parse the arguments, construct the pipeline, call run_pipeline
Main ==
    /\ pc = "idle"
    /\ runs < MaxRuns
    /\ runs' = runs + 1
    /\ \E f \in BOOLEAN :
         /\ force' = f
         /\ llmCalled' = IF f THEN {} ELSE llmCalled
    /\ \E a \in {[given |-> FALSE, ids |-> <<>>]}
                \cup {[given |-> TRUE, ids |-> l] : l \in IdLists} :
            ids_arg' = a
    /\ \E e \in Environments : env' = e
    /\ pc' = "deps"
    /\ exit' = "running"
    /\ cachedAtStart' = {v \in Videos : insightsFile[v].exists}
    /\ UNCHANGED <<disk, summaryFile, ids_file, video_ids, i, results, summary,
                   summaryWrites, locals, doneAll>>
    /\ UNCHANGED <<allWell, call>>

\* a dependency check that does not look at OPENAI_API_KEY
DependenciesMetWithoutKey(e) == e.yt_dlp /\ e.openai

\* check_dependencies: yt-dlp runs, OPENAI_API_KEY is set, openai imports
DependenciesMet(e) == e.yt_dlp /\ e.api_key /\ e.openai

\* run_pipeline's dependency check; on failure it returns status "failed"
\* and main exits with status 1
CheckDependencies ==
    /\ pc = "deps"
    /\ IF DependenciesMet(env)
       THEN pc' = "load_ids" /\ exit' = exit
       ELSE pc' = "exited" /\ exit' = "deps_failed"
    /\ UNCHANGED <<disk, summaryFile, runs, runvars, locals, doneAll>>
    /\ UNCHANGED <<llmCalled, allWell, call>>

\* what load_video_ids does with the file: "exit" is sys.exit(1), "raise" an
\* exception nobody catches
LoadOutcome(file_state) ==
    CASE file_state = "ok" -> "list"
      [] file_state \in {"missing", "bad_json"} -> "exit"
      [] OTHER -> "raise"

\* run_pipeline: video_ids, from the argument or from video_ids.json
LoadVideoIds ==
    /\ pc = "load_ids"
    /\ IF ids_arg.given
       THEN /\ video_ids' = ids_arg.ids
            /\ pc' = "loop"
            /\ UNCHANGED <<ids_file, exit>>
       ELSE \E st \in {"ok", "missing", "bad_json", "unreadable"} :
              /\ ids_file' = st
              /\ CASE LoadOutcome(st) = "list" ->
                        /\ video_ids' = VideoIdsFile
                        /\ pc' = "loop"
                        /\ exit' = exit
                   [] LoadOutcome(st) = "exit" ->
                        /\ pc' = "exited"
                        /\ exit' = "ids_failed"
                        /\ video_ids' = video_ids
                   [] OTHER ->
                        /\ pc' = "exited"
                        /\ exit' = "uncaught"
                        /\ video_ids' = video_ids
    /\ UNCHANGED <<disk, summaryFile, runs, env, force, ids_arg, i, results, summary,
                   summaryWrites, cachedAtStart, locals, doneAll>>
    /\ UNCHANGED <<llmCalled, allWell, call>>

\* none of the artifacts of video v is on disk
Fresh(v) ==
    /\ audio[v] = "none"
    /\ chunkDir[v].chunks = 0
    /\ chunkDir[v].chapters = 0
    /\ chunkDir[v].meta.st = "none"
    /\ ~chunkTranscripts[v].dir
    /\ ~transcriptFile[v].exists
    /\ ~insightsFile[v].exists

\* the for loop takes the next id and process_single_video starts on it
NextVideo ==
    /\ pc = "loop"
    /\ i < Len(video_ids)
    /\ i' = i + 1
    /\ result' = [video_id |-> video_ids[i + 1], status |-> "processing",
                  steps |-> <<>>, chunk_count |-> 0, errors |-> 0]
    /\ retry_count' = 0
    /\ chunk_files' = EmptyList
    /\ chunk_metadata' = NoChunkMetadata
    /\ transcript_chunks' = <<>>
    /\ full_transcript' = <<>>
    /\ calls' = NoCalls
    /\ allWell' = Fresh(video_ids[i + 1])
    /\ pc' = "download"
    /\ UNCHANGED <<disk, summaryFile, runs, exit, env, force, ids_arg, ids_file,
                   video_ids, results, summary, summaryWrites, cachedAtStart, doneAll>>
    /\ UNCHANGED <<llmCalled, call>>

\* what run_pipeline keeps of a result for its summary
Entry(r) == [video_id |-> r.video_id, status |-> r.status]

\* process_single_video returned: results.append(result); its frame is gone
AppendResult ==
    /\ pc = "returned"
    /\ results' = Append(results, Entry(result))
    /\ pc' = "loop"
    /\ result' = NoResult
    /\ retry_count' = 0
    /\ chunk_files' = EmptyList
    /\ chunk_metadata' = NoChunkMetadata
    /\ transcript_chunks' = <<>>
    /\ full_transcript' = <<>>
    /\ calls' = NoCalls
    /\ allWell' = FALSE
    /\ UNCHANGED <<disk, summaryFile, runs, exit, env, force, ids_arg, ids_file,
                   video_ids, i, summary, summaryWrites, cachedAtStart, doneAll>>
    /\ UNCHANGED <<llmCalled, call>>

CountStatus(rs, status) == Cardinality({k \in 1..Len(rs) : rs[k].status = status})

\* the summary run_pipeline builds after the loop
Summary(ids, rs) ==
    [status |-> "completed",
     total_videos |-> Len(ids),
     results |-> rs,
     successful |-> CountStatus(rs, "completed"),
     failed |-> CountStatus(rs, "failed")]

\* the for loop is over
LoopDone(k, ids) == k >= Len(ids)

\* after the loop: build the summary, write pipeline_summary.json, return;
\* main exits 0
WriteSummary ==
    /\ pc = "loop"
    /\ LoopDone(i, video_ids)
    /\ summary' = Summary(video_ids, results)
    /\ summaryFile' = TRUE
    /\ summaryWrites' = summaryWrites + 1
    /\ pc' = "exited"
    /\ exit' = "ok"
    /\ UNCHANGED <<disk, runs, env, force, ids_arg, ids_file, video_ids, i, results,
                   cachedAtStart, locals, doneAll>>
    /\ UNCHANGED <<llmCalled, allWell, call>>

\* the process is gone, and its memory with it
Exit ==
    /\ pc = "exited"
    /\ pc' = "idle"
    /\ exit' = "none"
    /\ env' = AllInstalled
    /\ force' = FALSE
    /\ ids_arg' = [given |-> FALSE, ids |-> <<>>]
    /\ ids_file' = "not_read"
    /\ video_ids' = <<>>
    /\ i' = 0
    /\ results' = <<>>
    /\ summary' = NoSummary
    /\ summaryWrites' = 0
    /\ result' = NoResult
    /\ retry_count' = 0
    /\ chunk_files' = EmptyList
    /\ chunk_metadata' = NoChunkMetadata
    /\ transcript_chunks' = <<>>
    /\ full_transcript' = <<>>
    /\ calls' = NoCalls
    /\ allWell' = FALSE
    /\ cachedAtStart' = {}
    /\ UNCHANGED <<disk, summaryFile, runs, doneAll>>
    /\ UNCHANGED <<llmCalled, call>>

(***************************************************************************)
(* process_single_video                                                    *)
(***************************************************************************)
\* result["steps"][stage] = outcome
Record(r, stage, outcome) ==
    [r EXCEPT !.steps = Append(@, [stage |-> stage, outcome |-> outcome])]

\* a failure branch that forgets result["status"] = "failed"
FailedKeepsStatus(r, stage) ==
    [Record(r, stage, "failed") EXCEPT !.errors = @ + 1]

\* a stage's failure branch: the step is "failed", an error is appended, the
\* status is "failed" (and the caller returns)
Failed(r, stage) ==
    [Record(r, stage, "failed") EXCEPT !.status = "failed", !.errors = @ + 1]

StepOf(r, stage) ==
    IF \E k \in 1..Len(r.steps) : r.steps[k].stage = stage
    THEN (r.steps[CHOOSE k \in 1..Len(r.steps) : r.steps[k].stage = stage]).outcome
    ELSE "none"

\* the pipeline's test before step 1: download unless the file is there
NeedsDownload(file, f) == file = "none" \/ f

\* Step 1 (pipeline.py 114-129): skip, or call download_audio(video_id)
DownloadStage ==
    /\ pc = "download"
    /\ IF NeedsDownload(audio[video_ids[i]], force)
       THEN /\ pc' = "download_audio"
            /\ retry_count' = 0
            /\ result' = result
       ELSE /\ result' = Record(result, "download", "skipped")
            /\ pc' = "split"
            /\ retry_count' = retry_count
    /\ UNCHANGED <<disk, summaryFile, runs, exit, runvars, chunk_files, chunk_metadata,
                   transcript_chunks, full_transcript, calls, doneAll>>
    /\ UNCHANGED <<llmCalled, allWell, call>>

\* one call frame of download_audio, and what the pipeline does with the
\* value that comes back from the outermost one
DownloadAudioCall ==
    /\ pc = "download_audio"
    /\ \E out \in AttemptOutcomes :
         LET v == video_ids[i]
             r == DownloadAudio(audio[v], out, retry_count)
         IN
         /\ audio' = [audio EXCEPT ![v] = r.file]
         /\ calls' = calls \cup (IF r.calls > 0 THEN {"download"} ELSE {})
         /\ allWell' = (allWell /\ (r.calls = 0 \/ out = "ok"))
         /\ CASE r.returns = "retry" ->
                   /\ retry_count' = retry_count + 1
                   /\ pc' = pc
                   /\ result' = result
              [] r.returns = "true" ->
                   /\ result' = Record(result, "download", "success")
                   /\ pc' = "split"
                   /\ retry_count' = 0
              [] OTHER ->
                   /\ result' = Failed(result, "download")
                   /\ pc' = "returned"
                   /\ retry_count' = 0
    /\ UNCHANGED <<chunkDir, chunkTranscripts, transcriptFile, insightsFile,
                   summaryFile, runs, exit, runvars, chunk_files, chunk_metadata,
                   transcript_chunks, full_transcript, doneAll>>
    /\ UNCHANGED <<llmCalled, call>>

\* chunks_dir.glob("<id>_chunk_*.mp3"): the chunk files, in the order the
\* file system lists them; chapter files do not match the pattern
GlobChunks(d) ==
    {[shape |-> "list", items |-> [k \in 1..d.chunks |-> ChunkPath("chunk", p[k])]] :
        p \in Perms(d.chunks)}

\* the pipeline's test before step 2: reuse the segments of an earlier run
SplitCached(d, f) == d.chunks > 0 /\ d.meta.st # "none" /\ ~f

\* Step 2 (pipeline.py 131-168).  Reading a truncated metadata file raises
\* JSONDecodeError; in the "skipped" branch nothing catches it and the
\* process dies with a traceback.
SplitStage ==
    /\ pc = "split"
    /\ LET v == video_ids[i]
           d == [chunkDir[v] EXCEPT !.exists = TRUE]
       IN
       IF SplitCached(d, force)
       THEN \E listed \in GlobChunks(d) :
              /\ chunkDir' = [chunkDir EXCEPT ![v] = d]
              /\ chunk_files' = listed
              /\ result' = [Record(result, "split", "skipped")
                              EXCEPT !.chunk_count = Len(listed.items)]
              /\ calls' = calls
              /\ allWell' = (allWell /\ d.meta.st # "corrupt")
              /\ IF d.meta.st = "corrupt"
                 THEN /\ pc' = "exited"
                      /\ exit' = "uncaught"
                      /\ chunk_metadata' = chunk_metadata
                 ELSE /\ pc' = "transcribe"
                      /\ exit' = exit
                      /\ chunk_metadata' = [present |-> TRUE, entries |-> d.meta.entries]
       ELSE \E in \in SplitInputs :
              LET r == SplitAudioFile([chunks |-> d.chunks, chapters |-> d.chapters,
                                       meta |-> d.meta], in)
              IN
              /\ chunkDir' = [chunkDir EXCEPT ![v] =
                                [exists |-> TRUE, chunks |-> r.dir.chunks,
                                 chapters |-> r.dir.chapters, meta |-> r.dir.meta]]
              /\ calls' = calls \cup {"chapters"}
                             \cup (IF r.probes > 0 THEN {"probe"} ELSE {})
                             \cup (IF r.cuts > 0 THEN {"cut"} ELSE {})
              /\ exit' = exit
              /\ allWell' = (/\ allWell
                              /\ in.chapters >= 0
                              /\ in.duration # 0
                              /\ in.cut_ok
                              /\ in.dump_ok)
              /\ IF r.raised
                 THEN /\ result' = Failed(result, "split")
                      /\ pc' = "returned"
                      /\ UNCHANGED <<chunk_files, chunk_metadata>>
                 ELSE /\ chunk_files' = r.ret
                      /\ result' = [Record(result, "split", "success")
                                      EXCEPT !.chunk_count = Len(r.ret.items)]
                      /\ chunk_metadata' = [present |-> TRUE,
                                            entries |-> r.dir.meta.entries]
                      /\ pc' = "transcribe"
    /\ UNCHANGED <<audio, chunkTranscripts, transcriptFile, insightsFile, summaryFile,
                   runs, runvars, retry_count, transcript_chunks, full_transcript,
                   doneAll>>
    /\ UNCHANGED <<llmCalled, call>>

\* the most chunk files a split of the pipeline leaves for a video
MaxChunkFiles ==
    Len(LengthSegments(0, MaxDurSteps * ChunkDuration, ChunkDuration, Overlap))

\* the characters of "<idx>.txt" that decide the order of two file names:
\* the decimal digits of idx (idx < 100), then the dot, which sorts before
\* every digit
NameKey(idx) ==
    (IF idx < 10 THEN <<idx>> ELSE <<idx \div 10, idx % 10>>) \o <<0 - 1>>

\* "<id>_chunk_<a>.txt" < "<id>_chunk_<b>.txt" as strings
NameBefore(a, b) ==
    \E k \in 1..Min(Len(NameKey(a)), Len(NameKey(b))) :
        /\ \A j \in 1..(k - 1) : NameKey(a)[j] = NameKey(b)[j]
        /\ NameKey(a)[k] < NameKey(b)[k]

\* list.sort() on the paths of a set of chunk indices: the order of the file
\* names, which is the numeric order only while the indices stay below 10
Sorted(S) ==
    CHOOSE q \in [1..Cardinality(S) -> S] :
        \A a, b \in 1..Cardinality(S) : a < b => NameBefore(q[a], q[b])

\* the pipeline's test before step 3: reuse the chunk transcripts on disk
TranscriptsCached(ct, f) == ct.dir /\ ct.files # {} /\ ~f

\* Step 3 (pipeline.py 170-240).  The two "need to transcribe" branches are
\* the same code; the metadata is re-read inside their try, outside any try
\* in the "skipped" branch.
TranscribeStage ==
    /\ pc = "transcribe"
    /\ LET v == video_ids[i]
           ct == chunkTranscripts[v]
           meta == chunkDir[v].meta
           reread == IF meta.st = "ok"
                     THEN [present |-> TRUE, entries |-> meta.entries]
                     ELSE chunk_metadata
       IN
       IF TranscriptsCached(ct, force)
       THEN /\ transcript_chunks' =
                   [k \in 1..Cardinality(ct.files) |-> Plain(SpeechOf(Sorted(ct.files)[k]))]
            /\ result' = Record(result, "transcribe", "skipped")
            /\ calls' = calls
            /\ allWell' = (allWell /\ meta.st # "corrupt")
            /\ chunk_metadata' = reread
            /\ IF meta.st = "corrupt"
               THEN pc' = "exited" /\ exit' = "uncaught"
               ELSE pc' = "assemble" /\ exit' = exit
       ELSE \E outs \in [1..(IF chunk_files.shape = "list"
                            THEN Len(chunk_files.items) ELSE 0) -> BOOLEAN] :
              LET r == TranscribeAudioChunks(chunk_files, outs) IN
              /\ calls' = calls \cup (IF r.calls > 0 THEN {"stt"} ELSE {})
              /\ exit' = exit
              /\ allWell' = (/\ allWell
                              /\ \A k \in DOMAIN outs : outs[k]
                              /\ meta.st # "corrupt")
              /\ IF r.raised
                 THEN /\ result' = Failed(result, "transcribe")
                      /\ pc' = "returned"
                      /\ UNCHANGED <<transcript_chunks, chunk_metadata>>
                 ELSE /\ transcript_chunks' =
                             [k \in 1..Len(r.transcripts) |-> Plain(r.transcripts[k])]
                      /\ chunk_metadata' = reread
                      /\ IF meta.st = "corrupt"
                         THEN result' = Failed(result, "transcribe") /\ pc' = "returned"
                         ELSE /\ result' = Record(result, "transcribe", "success")
                              /\ pc' = "assemble"
    /\ UNCHANGED <<disk, summaryFile, runs, runvars, retry_count, chunk_files,
                   full_transcript, doneAll>>
    /\ UNCHANGED <<llmCalled, call>>

\* pipeline.py 242-256: zip(transcript_chunks, chunk_metadata), each
\* transcript wrapped in a header built from the metadata entry beside it
Enhance(chunks, metadata) ==
    IF metadata.present
    THEN [k \in 1..Min(Len(chunks), Len(metadata.entries)) |->
            [enhanced |-> TRUE, position |-> k - 1, meta |-> metadata.entries[k],
             text |-> chunks[k].text]]
    ELSE chunks

\* the pipeline's test before step 4
AssembleCached(tf, f) == tf.exists /\ ~f

\* Enhancement and step 4 (pipeline.py 242-284); write_ok: the transcript
\* file can be opened and written
AssembleStage ==
    /\ pc = "assemble"
    /\ LET v == video_ids[i]
           enhanced == Enhance(transcript_chunks, chunk_metadata)
       IN
       /\ transcript_chunks' = enhanced
       /\ IF AssembleCached(transcriptFile[v], force)
          THEN /\ full_transcript' = transcriptFile[v].sections
               /\ result' = Record(result, "assemble", "skipped")
               /\ pc' = "insights"
               /\ UNCHANGED <<transcriptFile, allWell>>
          ELSE \E write_ok \in BOOLEAN :
                 /\ allWell' = (allWell /\ write_ok)
                 /\ IF write_ok
                    THEN /\ full_transcript' = AssembleTranscript(enhanced)
                         /\ transcriptFile' = [transcriptFile EXCEPT ![v] =
                               [exists |-> TRUE,
                                sections |-> AssembleTranscript(enhanced)]]
                         /\ result' = Record(result, "assemble", "success")
                         /\ pc' = "insights"
                    ELSE /\ result' = Failed(result, "assemble")
                         /\ pc' = "returned"
                         /\ UNCHANGED <<full_transcript, transcriptFile>>
    /\ UNCHANGED <<audio, chunkDir, chunkTranscripts, insightsFile, summaryFile, runs,
                   exit, runvars, retry_count, chunk_files, chunk_metadata, calls,
                   doneAll>>
    /\ UNCHANGED <<llmCalled, call>>

\* a step 5 that never reuses the insights file
InsightsNeverCached(f_ins, f) == FALSE

\* the pipeline's test before step 5
InsightsCached(f_ins, f) == f_ins.exists /\ ~f

\* step 5's except branch: the step is "failed" and an error is appended;
\* the status is left alone
InsightsFailed(r) == [Record(r, "insights", "failed") EXCEPT !.errors = @ + 1]

\* a step 5 whose failure fails the video
CompletedUnlessInsightsFailed(r) ==
    [r EXCEPT !.status = IF r.steps[Len(r.steps)].outcome = "failed"
                         THEN "failed" ELSE "completed"]

\* pipeline.py 316: once step 5 is over, whatever it recorded
Completed(r) == [r EXCEPT !.status = "completed"]

AllFiveDone(r) ==
    \A k \in 1..Len(Stages) : StepOf(r, Stages[k]) \in {"success", "skipped"}

\* Step 5 (pipeline.py 286-318).  fault is what goes wrong around the chat
\* call: "header" building the context header raises (before the call),
\* "open" the insights file cannot be opened for writing, "dump" json.dump
\* raises part-way and leaves a truncated file.  All are caught and the step
\* is recorded "failed".
InsightsStage ==
    /\ pc = "insights"
    /\ LET v == video_ids[i] IN
       IF InsightsCached(insightsFile[v], force)
       THEN /\ result' = Completed(Record(result, "insights", "skipped"))
            /\ UNCHANGED <<insightsFile, calls, llmCalled, allWell>>
       ELSE \E fault \in {"none", "header", "open", "dump"} :
              /\ calls' = calls \cup (IF fault = "header" THEN {} ELSE {"llm"})
              /\ llmCalled' = llmCalled \cup (IF fault = "header" THEN {} ELSE {v})
              /\ IF fault = "none"
                 THEN \E out \in LlmOutcomes :
                        LET r == ExtractInsightsFromTranscript(out, v) IN
                        /\ allWell' = (allWell /\ out.kind = "json_object")
                        /\ IF r.raised
                           THEN /\ result' = Completed(InsightsFailed(result))
                                /\ UNCHANGED insightsFile
                           ELSE /\ insightsFile' = [insightsFile EXCEPT ![v] =
                                      [exists |-> TRUE, st |-> "ok",
                                       content |-> r.value]]
                                /\ result' =
                                      Completed(Record(result, "insights", "success"))
                 ELSE /\ result' = Completed(InsightsFailed(result))
                      /\ allWell' = FALSE
                      /\ insightsFile' =
                            IF fault = "dump"
                            THEN [insightsFile EXCEPT ![v] =
                                    [exists |-> TRUE, st |-> "truncated",
                                     content |-> EmptyObject]]
                            ELSE insightsFile
    /\ doneAll' = IF AllFiveDone(result') THEN doneAll \cup {video_ids[i]} ELSE doneAll
    /\ pc' = "returned"
    /\ UNCHANGED <<audio, chunkDir, chunkTranscripts, transcriptFile, summaryFile, runs,
                   exit, runvars, retry_count, chunk_files, chunk_metadata,
                   transcript_chunks, full_transcript, call>>

(***************************************************************************)
(* transcribe_chunks.py run on its own (process_all_chunks), from the      *)
(* directory that holds data/: for every video folder under audio_chunks   *)
(* it creates chunk_transcripts/<v> and writes one .txt per mp3 it manages *)
(* to transcribe.  Only the transcripts of chunk files are kept here: the  *)
(* pipeline's glob "<id>_chunk_*.txt" never sees those of chapter files.   *)
(***************************************************************************)
ProcessAllChunks ==
    /\ pc = "idle"
    /\ runs < MaxRuns
    /\ runs' = runs + 1
    /\ \E done \in [Videos -> SUBSET (0..(MaxChunkFiles - 1))] :
         /\ \A v \in Videos :
              done[v] \subseteq {k \in 0..(chunkDir[v].chunks - 1) :
                                   chunkDir[v].exists /\ k \notin chunkTranscripts[v].files}
         /\ chunkTranscripts' = [v \in Videos |->
               [dir |-> chunkTranscripts[v].dir \/ chunkDir[v].exists,
                files |-> chunkTranscripts[v].files \cup done[v]]]
    /\ UNCHANGED <<audio, chunkDir, transcriptFile, insightsFile, summaryFile, pc, exit,
                   runvars, locals, doneAll>>
    /\ UNCHANGED <<llmCalled, allWell, call>>

Next ==
    \/ Main
    \/ CheckDependencies
    \/ LoadVideoIds
    \/ NextVideo
    \/ DownloadStage
    \/ DownloadAudioCall
    \/ SplitStage
    \/ TranscribeStage
    \/ AssembleStage
    \/ InsightsStage
    \/ AppendResult
    \/ WriteSummary
    \/ Exit
    \/ ProcessAllChunks

Spec == Init /\ [][Next]_vars

(***************************************************************************)
(* The functions of the modules called on their own, each on inputs drawn  *)
(* from bounded sets.  The pipeline does not run in this specification.    *)
(***************************************************************************)
\* a record returned by extract_insights_from_transcript is a fallback
IsFallback(record) == "raw_response" \in DOMAIN record \/ "error" \in DOMAIN record

\* extract_insights_from_transcript(transcript_text, video_id) with the chat
\* call answering response; video_id "" stands for the default None
CallExtractInsights ==
    /\ call = NoCall
    /\ \E response \in Responses, video_id \in Videos \cup {""} :
         call' = [fn |-> "extract_insights_from_transcript",
                  arg |-> [response |-> response, video_id |-> video_id,
                           fed |-> FALSE, previous |-> EmptyObject],
                  ret |-> ExtractInsightsFromTranscript(response, video_id)]
    /\ UNCHANGED pipeline

\* the fallback record just returned is serialised and comes back as the
\* chat call's answer
FeedBack ==
    /\ call.fn = "extract_insights_from_transcript"
    /\ ~call.ret.raised
    /\ IsFallback(call.ret.value)
    /\ call' = [fn |-> "extract_insights_from_transcript",
                arg |-> [response |-> JsonDumps(call.ret.value),
                         video_id |-> call.arg.video_id,
                         fed |-> TRUE, previous |-> call.ret.value],
                ret |-> ExtractInsightsFromTranscript(JsonDumps(call.ret.value),
                                                      call.arg.video_id)]
    /\ UNCHANGED pipeline

\* the lists of at most n elements of S
ListsOver(S, n) == UNION {[1..m -> S] : m \in 0..n}

\* transcribe_audio_chunks(chunk_files) on a list of segment paths; outs[k]
\* tells whether transcribe_chunk succeeds on the k-th one
CallTranscribeAudioChunks ==
    /\ call = NoCall
    /\ \E paths \in ListsOver({ChunkPath("chunk", k) : k \in 0..(MaxSegments - 1)},
                               MaxSegments) :
         \E outs \in [1..Len(paths) -> BOOLEAN] :
           call' = [fn |-> "transcribe_audio_chunks",
                    arg |-> [chunk_files |-> [shape |-> "list", items |-> paths],
                             outs |-> outs],
                    ret |-> TranscribeAudioChunks([shape |-> "list", items |-> paths],
                                                  outs)]
    /\ UNCHANGED pipeline

\* assemble_transcript(transcript_chunks) on a list of texts
CallAssembleTranscript ==
    /\ call = NoCall
    /\ \E texts \in ListsOver({EmptyText, Blank, SpeechOf(0), SpeechOf(1)}, MaxSegments) :
         LET chunks == [k \in 1..Len(texts) |-> Plain(texts[k])] IN
         call' = [fn |-> "assemble_transcript",
                  arg |-> chunks,
                  ret |-> AssembleTranscript(chunks)]
    /\ UNCHANGED pipeline

\* the (duration, chunk_duration, overlap) split_by_length is tried on
LengthInputs ==
    {[duration |-> dd, chunk_duration |-> c, overlap |-> o] :
        dd \in 1..MaxDuration, c \in 1..MaxChunk, o \in 0..(MaxChunk - 1)}
    \cup {[duration |-> 100 * k, chunk_duration |-> ChunkDuration, overlap |-> Overlap] :
             k \in 1..(5 * MaxDuration)}

\* the cuts split_by_length makes for a probed duration; the chunk size is
\* larger than the overlap (otherwise the loop never ends)
CallSplitByLength ==
    /\ call = NoCall
    /\ \E in \in LengthInputs :
         /\ in.chunk_duration > in.overlap
         /\ call' = [fn |-> "split_by_length",
                     arg |-> in,
                     ret |-> LengthSegments(0, in.duration, in.chunk_duration,
                                            in.overlap)]
    /\ UNCHANGED pipeline

\* get_chapters(video_id) with the platform answering native and the
\* metadata file in state metadata holding description
CallGetChapters ==
    /\ call = NoCall
    /\ \E native \in NativeOutcomes, metadata \in MetadataStates,
          description \in Descriptions :
         call' = [fn |-> "get_chapters",
                  arg |-> [native |-> native, metadata |-> metadata,
                           description |-> description],
                  ret |-> GetChapters(native, metadata, description)]
    /\ UNCHANGED pipeline

\* download_audio(video_id) with the mp3 in state file and the successive
\* invocations of yt-dlp ending as outs says
CallDownloadAudio ==
    /\ call = NoCall
    /\ \E file \in {"none", "partial", "complete"},
          outs \in [1..(DownloadRetryLimit + 2) -> AttemptOutcomes] :
         call' = [fn |-> "download_audio",
                  arg |-> [file |-> file, outs |-> outs],
                  ret |-> DownloadAudioRun(file, outs, 0)]
    /\ UNCHANGED pipeline

\* the chapter lists split_by_chapters is tried on: the platform's, and
\* those get_chapters derives from a description
ChapterLists ==
    {NativeChapters}
    \cup {DescriptionChapters(ParseChaptersFromDescription(description)) :
             description \in Descriptions}

\* the durations ffprobe reports to split_by_chapters
TotalDurations == {600 * k : k \in 1..(MaxPart + 1)}

\* split_by_chapters on a non-empty chapter list (split_audio_file calls it
\* only "if chapters") and a probed total duration
CallSplitByChapters ==
    /\ call = NoCall
    /\ \E chapters \in ChapterLists, total_duration \in TotalDurations :
         /\ chapters # <<>>
         /\ call' = [fn |-> "split_by_chapters",
                     arg |-> [chapters |-> chapters, total_duration |-> total_duration],
                     ret |-> ChapterSegments(chapters, total_duration)]
    /\ UNCHANGED pipeline

FnNext ==
    \/ CallDownloadAudio
    \/ CallGetChapters
    \/ CallSplitByChapters
    \/ CallSplitByLength
    \/ CallExtractInsights
    \/ FeedBack
    \/ CallTranscribeAudioChunks
    \/ CallAssembleTranscript

FnSpec == Init /\ [][FnNext]_vars

(***************************************************************************)
(* Properties                                                              *)
(***************************************************************************)
\* process_single_video is running (it has not returned or died)
StagePcs == {"download", "download_audio", "split", "transcribe", "assemble", "insights"}

\* the video process_single_video is working on, or last worked on
Current == video_ids[i]

ToolsOf(stage) ==
    CASE stage = "download" -> {"download"}
      [] stage = "split" -> {"chapters", "probe", "cut"}
      [] stage = "transcribe" -> {"stt"}
      [] stage = "insights" -> {"llm"}
      [] OTHER -> {}

\* the stage the process is in, as an index into Stages (0: in none)
StageInProgress ==
    CASE pc \in {"download", "download_audio"} -> 1
      [] pc = "split" -> 2
      [] pc = "transcribe" -> 3
      [] pc = "assemble" -> 4
      [] pc = "insights" -> 5
      [] OTHER -> 0

FirstFourDone(r) ==
    \A k \in 1..4 : StepOf(r, Stages[k]) \in {"success", "skipped"}

\* C1: the stages of process_single_video are attempted in the order
\* download, split, transcribe, assemble, insights and nothing is skipped
\* over; when one of the first four is recorded "failed" it is the last
\* step recorded, the status is "failed", the function has returned, and no
\* tool of a later stage has been called.
C1_StagesInOrderAndFailureHalts ==
    LET n == Len(result.steps) IN
    /\ n <= Len(Stages)
    /\ \A k \in 1..n : result.steps[k].stage = Stages[k]
    /\ StageInProgress > 0 => n = StageInProgress - 1
    /\ calls \subseteq UNION {ToolsOf(Stages[k]) : k \in 1..Max(n, StageInProgress)}
    /\ \A k \in 1..n :
         (k <= 4 /\ result.steps[k].outcome = "failed")
            => /\ k = n
               /\ result.status = "failed"
               /\ pc = "returned"

C1_Witness ==
    /\ pc = "returned"
    /\ Len(result.steps) = 3
    /\ result.steps[3] = [stage |-> "transcribe", outcome |-> "failed"]
    /\ result.status = "failed"

\* C2: when process_single_video has returned and each of the first four
\* stages ended "success" or "skipped", the status is "completed" whatever
\* step 5 did; a failure of step 5 is recorded as a step and as an error.
C2_InsightFailureDoesNotFailVideo ==
    (pc = "returned" /\ FirstFourDone(result))
       => /\ result.status = "completed"
          /\ StepOf(result, "insights") \in {"success", "skipped", "failed"}
          /\ StepOf(result, "insights") = "failed" => result.errors >= 1

C2_Witness ==
    /\ pc = "returned"
    /\ FirstFourDone(result)
    /\ StepOf(result, "insights") = "failed"
    /\ result.status = "completed"

\* C3 (as claimed): while process_single_video runs without force on a video
\* that an earlier call took through all five stages, no tool is called and
\* none of the video's artifacts changes.
C3_RerunCallsNothingChangesNothing ==
    [][(pc \in StagePcs /\ ~force /\ Current \in doneAll)
          => /\ calls' = {}
             /\ audio'[Current] = audio[Current]
             /\ chunkDir'[Current] = chunkDir[Current]
             /\ chunkTranscripts'[Current] = chunkTranscripts[Current]
             /\ transcriptFile'[Current] = transcriptFile[Current]
             /\ insightsFile'[Current] = insightsFile[Current]]_vars

\* C4 (as claimed): in a run without force no transcription and no
\* extraction call is made for a video whose insights file was there when
\* the run began, and the summary reports as many videos as ids were given.
C4_NoCallsForCachedVideos ==
    /\ (pc \in StagePcs \cup {"returned"} /\ ~force /\ Current \in cachedAtStart)
          => calls \cap {"stt", "llm"} = {}
    /\ summaryWrites > 0 => summary.total_videos = Len(video_ids)

\* C5 (as claimed): with the force flag the download stage fetches the audio
\* again: once the stage is over, yt-dlp has been invoked.
C5_ForceDownloadsAgain ==
    (force /\ StageInProgress > 1) => "download" \in calls

\* the segment files and the metadata file of an earlier split are on disk
SegmentsOnDisk(d) ==
    /\ d.meta.st = "ok"
    /\ Len(d.meta.entries) > 0
    /\ IF d.meta.entries[1].is_chapter_based
       THEN d.chapters >= Len(d.meta.entries)
       ELSE d.chunks >= Len(d.meta.entries)

\* C6 (as claimed): when the split stage starts without force on a video
\* whose segments and segment metadata exist, it records "skipped" and calls
\* none of the segmenter's tools.
C6_ExistingSegmentsSkipSplit ==
    [][(pc = "split" /\ ~force /\ SegmentsOnDisk(chunkDir[Current]))
          => /\ StepOf(result', "split") = "skipped"
             /\ calls' = calls]_vars

\* C7 (as claimed): after a successful split stage chunk_files is the list
\* of segment paths: chunk_count is the number of segments and the
\* transcribe stage gets one path per segment.
C7_SplitReturnsSegmentPaths ==
    (pc = "transcribe" /\ StepOf(result, "split") = "success")
       => /\ chunk_files.shape = "list"
          /\ result.chunk_count = Len(chunkDir[Current].meta.entries)
          /\ Len(chunk_files.items) = Len(chunkDir[Current].meta.entries)

\* C8 (as claimed): a run that got past the dependency check and started on
\* its N ids has, when the process ends, written the summary exactly once,
\* after the last video, with total_videos = N, one result entry per id in
\* input order, and successful + failed = total_videos.
C8_SummaryOncePerRun ==
    /\ summaryWrites <= 1
    /\ summaryWrites = 1 => i = Len(video_ids)
    /\ (pc = "exited" /\ i > 0)
          => /\ summaryWrites = 1
             /\ summaryFile
             /\ summary.total_videos = Len(video_ids)
             /\ Len(summary.results) = Len(video_ids)
             /\ \A k \in 1..Len(video_ids) : summary.results[k].video_id = video_ids[k]
             /\ summary.successful + summary.failed = summary.total_videos

C10_EveryIdGetsAResult ==
    (pc = "exited" /\ i > 0) => Len(results) = Len(video_ids)

\* C11 (as claimed): over runs without force the chat API is called at most
\* once for a video: step 5 makes no call for a video it was already called
\* for since the last forced run.
C11_LlmCalledAtMostOnce ==
    [][(pc = "insights" /\ ~force /\ Current \in llmCalled)
          => "llm" \notin calls']_vars

\* C11 (amended): a video's insights file, once it is on disk, changes only
\* in a forced run, and in a run without force step 5 makes no chat call for
\* a video whose insights file is on disk.
C11_WrittenInsightsAreKept ==
    [][/\ \A v \in Videos :
            (insightsFile[v].exists /\ insightsFile'[v] # insightsFile[v]) => force
       /\ (pc = "insights" /\ ~force /\ insightsFile[Current].exists)
             => "llm" \notin calls']_vars

C11_Witness ==
    /\ pc = "returned"
    /\ ~force
    /\ Current \in llmCalled
    /\ insightsFile[Current].st = "ok"
    /\ StepOf(result, "insights") = "skipped"
    /\ "llm" \notin calls

Extracting == call.fn = "extract_insights_from_transcript"

\* C12: extract_insights_from_transcript returns for every answer of the
\* chat call, an exception included; when the answer is not JSON or is JSON
\* that is not an object, the record returned carries the raw content under
\* raw_response and marks the failure in its summary ("Failed to parse
\* insights as JSON"); when the call fails it carries the error text.
C12_ExtractNeverRaises ==
    Extracting
       => /\ ~call.ret.raised
          /\ {"summary", "insights", "golden_nuggets", "video_id"}
                \subseteq DOMAIN call.ret.value
          /\ call.arg.response.kind \in {"text", "json_other"}
                => /\ "raw_response" \in DOMAIN call.ret.value
                   /\ call.ret.value.raw_response.t = "str"
                   /\ call.ret.value.summary = Str("Failed to parse insights as JSON")
          /\ call.arg.response.kind \in {"api_error", "no_content"}
                => "error" \in DOMAIN call.ret.value

C12_Witness ==
    /\ Extracting
    /\ call.arg.response.kind = "json_other"
    /\ call.arg.response.fence = "json"
    /\ ~call.ret.raised
    /\ "raw_response" \in DOMAIN call.ret.value

\* the persisted shape of an insight record of video v
ShapeOk(content, v) ==
    /\ {"summary", "insights", "golden_nuggets", "video_id"} \subseteq DOMAIN content
    /\ content.summary.t = "str"
    /\ content.insights.t = "list"
    /\ content.golden_nuggets.t = "list"
    /\ content.video_id = Str(v)

\* C13 (as claimed): every insight record the pipeline has written has a
\* string summary, a list insights, a list golden_nuggets and the video's
\* id, whatever the model answered.
C13_PersistedInsightShape ==
    \A v \in Videos : insightsFile[v].st = "ok" => ShapeOk(insightsFile[v].content, v)

\* C14 (as claimed): a fallback record, serialised and fed back as the
\* model's answer, comes out with the same set of fields.
C14_FallbackIdempotent ==
    (Extracting /\ call.arg.fed)
       => /\ ~call.ret.raised
          /\ DOMAIN call.ret.value = DOMAIN call.arg.previous

\* C15: transcribe_audio_chunks on a list of n segment paths returns n
\* texts, the k-th being the transcript of the k-th path or the empty string
\* when its transcription failed; every segment is attempted, whatever
\* failed before it.
C15_OneTextPerSegment ==
    call.fn = "transcribe_audio_chunks"
       => LET n == Len(call.arg.chunk_files.items) IN
          /\ ~call.ret.raised
          /\ Len(call.ret.transcripts) = n
          /\ call.ret.calls = n
          /\ \A k \in 1..n :
               call.ret.transcripts[k] =
                  IF call.arg.outs[k]
                  THEN SpeechOf(call.arg.chunk_files.items[k].idx)
                  ELSE EmptyText

C15_Witness ==
    /\ call.fn = "transcribe_audio_chunks"
    /\ call.arg.outs = <<TRUE, FALSE, TRUE>>
    /\ call.arg.chunk_files.items[3].idx = 0
    /\ call.ret.transcripts[2] = EmptyText
    /\ call.ret.transcripts[3] = SpeechOf(0)

\* the positions (from 0) of the chunks that are not empty after strip()
NonEmptyPositions(chunks) ==
    {k - 1 : k \in {j \in 1..Len(chunks) : Strip(chunks[j].text) # EmptyText}}

\* C16: assemble_transcript emits one section per chunk that is not empty
\* after trimming, in input order, each headed by the chunk's position in
\* the input list and holding that chunk; empty chunks add nothing and do
\* not renumber the chunks after them.
C16_SectionsKeepInputPositions ==
    call.fn = "assemble_transcript"
       => LET chunks == call.arg
              sections == call.ret
          IN
          /\ Len(sections) = Cardinality(NonEmptyPositions(chunks))
          /\ {sections[j].index : j \in 1..Len(sections)} = NonEmptyPositions(chunks)
          /\ \A a, b \in 1..Len(sections) :
               a < b => sections[a].index < sections[b].index
          /\ \A j \in 1..Len(sections) :
               sections[j].body = chunks[sections[j].index + 1]

C16_Witness ==
    /\ call.fn = "assemble_transcript"
    /\ Len(call.arg) = 3
    /\ call.arg[1].text = Blank
    /\ call.arg[2].text = EmptyText
    /\ call.arg[3].text = SpeechOf(1)
    /\ Len(call.ret) = 1
    /\ call.ret[1].index = 2

\* C17: split_by_length on duration D > 0 with chunk size C and overlap
\* O < C cuts segments starting at 0, C-O, 2(C-O), ..., one for every such
\* start below D and no other, and the last segment ends at D.
C17_StartsAndLastEnd ==
    call.fn = "split_by_length"
       => LET segs == call.ret
              n == Len(segs)
              stride == call.arg.chunk_duration - call.arg.overlap
          IN
          /\ n >= 1
          /\ \A k \in 1..n : segs[k].start = (k - 1) * stride
          /\ (n - 1) * stride < call.arg.duration
          /\ n * stride >= call.arg.duration
          /\ segs[n].end = call.arg.duration

C17_Witness ==
    /\ call.fn = "split_by_length"
    /\ call.arg = [duration |-> 2500, chunk_duration |-> ChunkDuration,
                   overlap |-> Overlap]
    /\ Len(call.ret) = 3
    /\ call.ret[3] = [start |-> 2000, end |-> 2500]

\* C19 (as claimed): every segment split_by_length cuts, except the last,
\* lasts exactly the chunk size.
C19_OnlyLastSegmentShorter ==
    call.fn = "split_by_length"
       => \A k \in 1..(Len(call.ret) - 1) :
            call.ret[k].end - call.ret[k].start = call.arg.chunk_duration

\* C18 (as claimed): in every chapter list get_chapters derives from a
\* description each chapter ends where the next one starts, the last one
\* has no end, and the starts never decrease, in whatever order the
\* timestamp lines stand.
C18_DerivedChaptersOrdered ==
    (call.fn = "get_chapters" /\ call.ret.source = "description")
       => LET chapters == call.ret.chapters
              n == Len(chapters)
          IN
          /\ \A k \in 1..(n - 1) :
               /\ chapters[k].end_time = chapters[k + 1].start_time
               /\ chapters[k].start_time <= chapters[k + 1].start_time
          /\ chapters[n].end_time = NoEnd

\* C20 (as claimed): get_chapters returns the platform's chapters when the
\* platform gives a non-empty list; when the platform call fails or gives
\* nothing, None or an empty list, it returns the chapters derived from the
\* description if the description has timestamp lines, and none otherwise.
C20_NativeFirstThenDescription ==
    (call.fn = "get_chapters" /\ call.arg.metadata \in {"ok", "missing"})
       => LET raw == ParseChaptersFromDescription(
                        IF call.arg.metadata = "ok" THEN call.arg.description ELSE <<>>)
          IN
          /\ ~call.ret.raised
          /\ call.arg.native = "list"
                => (call.ret.source = "native" /\ call.ret.chapters = NativeChapters)
          /\ (call.arg.native # "list" /\ raw # <<>>)
                => /\ call.ret.source = "description"
                   /\ call.ret.chapters = DescriptionChapters(raw)
          /\ (call.arg.native # "list" /\ raw = <<>>)
                => call.ret.chapters = <<>>

\* C21 (as claimed): split_by_chapters cuts one segment per chapter, in the
\* order of the chapters, segment k from chapter k's start to chapter k's
\* given end; only a chapter without an end runs to the total duration.
C21_OneSegmentPerChapter ==
    call.fn = "split_by_chapters"
       => LET chapters == call.arg.chapters
              segs == call.ret
          IN
          /\ Len(segs) = Len(chapters)
          /\ \A k \in 1..Len(chapters) :
               /\ segs[k].start = chapters[k].start_time
               /\ segs[k].end = IF chapters[k].end_time = NoEnd
                                THEN call.arg.total_duration
                                ELSE chapters[k].end_time

\* C22 (as claimed): the transcript chunks process_single_video hands to
\* the assembly are in ascending order of the index of the segment each was
\* transcribed from, however the segments and transcripts were come by.
C22_ChunksInSegmentOrder ==
    pc = "assemble"
       => \A a, b \in 1..Len(transcript_chunks) :
            (/\ a < b
             /\ transcript_chunks[a].text # EmptyText
             /\ transcript_chunks[b].text # EmptyText)
               => transcript_chunks[a].text[1] < transcript_chunks[b].text[1]

\* an invocation of yt-dlp ended with a non-zero exit status
ErrorExit(out) == out \in {"err", "err_partial"}

\* C23: a call of download_audio returns after at most 3 invocations of
\* yt-dlp; an invocation is followed by another one only when it ended with
\* a non-zero exit status; after three such invocations in a row the call
\* returns False.
C23_AtMostThreeInvocations ==
    call.fn = "download_audio"
       => /\ call.ret.returns \in {"true", "false"}
          /\ call.ret.calls <= 3
          /\ \A k \in 2..call.ret.calls : ErrorExit(call.arg.outs[k - 1])
          /\ (call.ret.calls = 3 /\ ErrorExit(call.arg.outs[3]))
                => call.ret.returns = "false"

C23_Witness ==
    /\ call.fn = "download_audio"
    /\ call.arg.file = "none"
    /\ \A k \in 1..3 : call.arg.outs[k] = "err"
    /\ call.ret.calls = 3
    /\ call.ret.returns = "false"

\* the metadata file lists more segments than there are segment files: a
\* cut did not produce its file
CutsMissing(d) ==
    /\ d.meta.st = "ok"
    /\ Len(d.meta.entries) > 0
    /\ (IF d.meta.entries[1].is_chapter_based THEN d.chapters ELSE d.chunks)
          < Len(d.meta.entries)

\* C24 (as claimed): a split stage in which ffmpeg was run and failed to
\* cut a segment records the split step "failed", sets the status "failed"
\* and returns, so that no later stage runs for the video.
C24_CutFailureFailsSplit ==
    [][(pc = "split" /\ "cut" \in calls' /\ CutsMissing(chunkDir'[Current]))
          => /\ StepOf(result', "split") = "failed"
             /\ result'.status = "failed"
             /\ pc' = "returned"]_vars

\* C25 (as claimed): when process_single_video, called without force on a
\* video with no artifact on disk, has returned and no tool failed on the way
\* (download, probe, every cut, every transcription, the chat call), the
\* status is "completed", all five stages are recorded "success" and the
\* insights file is written.
C25_FreshVideoCompletes ==
    (pc = "returned" /\ ~force /\ allWell)
       => /\ result.status = "completed"
          /\ \A k \in 1..Len(Stages) : StepOf(result, Stages[k]) = "success"
          /\ insightsFile[Current].st = "ok"

\* C26 (as claimed): an insights file written for a video holds the result
\* of a successful extraction, never the fallback record of a failed one (a
\* failed chat call, an answer that could not be parsed).
C26_InsightsFileOnlyOnSuccess ==
    \A v \in Videos :
        insightsFile[v].st = "ok" => ~IsFallback(insightsFile[v].content)

\* C27 (as claimed): no section of a transcript the pipeline has written
\* comes from a segment whose transcription failed (whose text is the empty
\* placeholder), whether or not the chunk carries timing metadata.
C27_FailedSegmentAddsNoSection ==
    \A v \in Videos :
        \A j \in 1..Len(transcriptFile[v].sections) :
            transcriptFile[v].sections[j].body.text # EmptyText

\* C28 (as claimed): the enhancement step of process_single_video, when
\* timing metadata is there, yields as many enhanced chunks as there were
\* transcript chunks, each transcript labelled with the metadata entry of
\* the segment it was transcribed from.
C28_EnhancementPairsOwnMetadata ==
    [][(pc = "assemble" /\ chunk_metadata.present)
          => /\ Len(transcript_chunks') = Len(transcript_chunks)
             /\ \A k \in 1..Len(transcript_chunks') :
                  transcript_chunks'[k].text # EmptyText
                     => transcript_chunks'[k].meta.chunk_index
                           = transcript_chunks'[k].text[1]]_vars

\* the speech-to-text service was called in the current call of
\* process_single_video and gave no text for any segment
EveryTranscriptionFailed ==
    /\ pc \in StagePcs \cup {"returned"}
    /\ "stt" \in calls
    /\ transcript_chunks # <<>>
    /\ \A k \in 1..Len(transcript_chunks) : transcript_chunks[k].text = EmptyText

\* C29 (as claimed): when the transcription of every segment of a video
\* failed, the transcribe stage is not recorded "success", no assembled
\* transcript is written for it and its status is not "completed".
C29_AllFailedIsNotCompleted ==
    EveryTranscriptionFailed
       => /\ StepOf(result, "transcribe") # "success"
          /\ StepOf(result, "assemble") # "success"
          /\ result.status # "completed"

\* C30 (as claimed): whenever the download stage of process_single_video is
\* recorded "success" (download_audio returned True) or "skipped" (the
\* pipeline found the audio present), the video's mp3 is a complete,
\* non-empty file, never the partial or empty one a failed attempt left.
C30_OnlyCompleteAudioAccepted ==
    (pc \in StagePcs \cup {"returned"}
        /\ StepOf(result, "download") \in {"success", "skipped"})
       => audio[Current] = "complete"

====
